---- MODULE Spec2Model ----
(***************************************************************************)
(* Model of packages/wrapper/src/index.tsx (next-redux-wrapper):           *)
(* store lifecycle (initStore), the data-loading phase adapters            *)
(* (makeProps, getInitialPageProps, getInitialAppProps, getStaticProps,    *)
(* getServerSideProps) and the Wrapper component returned by withRedux     *)
(* (hydrate, first-render rule, layout effect, props composition).         *)
(*                                                                         *)
(* One server process (several requests) and one browser session are       *)
(* modelled side by side.  JavaScript values are records [k, n]:           *)
(*   k = "undef"  undefined (n = 0)                                        *)
(*   k = "num"    the number n            (falsy iff n = 0)                *)
(*   k = "obj"    the object {count: n}   (always truthy)                  *)
(* Store identities are indices into the sequence stores; 0 is "no store". *)
(***************************************************************************)
EXTENDS Integers, Sequences, FiniteSets, TLC

\* ------------------------------------------------------------- bounds
MaxStores == 2          \* cap on the number of makeStore invocations
MaxCount == 1           \* cap on the increments the user callbacks dispatch
MaxWarnings == 1        \* cap on the console.warn calls
MaxErrors == 1          \* cap on the errors makeStore throws, per scope

Requests == {1, 2}      \* identities of the server's request objects
Refs == {1, 2}          \* identities of snapshot objects handed to the Wrapper
Slots == {1, 2}         \* phase invocations that can be suspended at once

\* ------------------------------------------------------------- constants of the source
HYDRATE == "__NEXT_REDUX_WRAPPER_HYDRATE__"
STOREKEY == "__NEXT_REDUX_WRAPPER_STORE__"
CustomKey == "customStoreKey"
Keys == {STOREKEY, CustomKey}

\* ------------------------------------------------------------- JavaScript values
Undefined == [k |-> "undef", n |-> 0]
Num(n) == [k |-> "num", n |-> n]
Obj(n) == [k |-> "obj", n |-> n]
Truthy(v) == v.k = "obj" \/ (v.k = "num" /\ v.n # 0)

\* The configured hook pair: serializeState adds SerShift to the counter,
\* deserializeState subtracts it; they are inverses of each other.
SerShift == MaxCount + 1
serializeState(v) == IF v.k = "undef" THEN v ELSE [v EXCEPT !.n = @ + SerShift]
deserializeState(v) == IF v.k = "undef" THEN v ELSE [v EXCEPT !.n = @ - SerShift]

MinN == 0 - SerShift
MaxN == MaxCount + SerShift
InRange(v) == v.n >= MinN /\ v.n <= MaxN

VARIABLES
    config,      \* Config given to createWrapper: serializeState?, deserializeState?, storeKey?, debug?
    shape,       \* "num" or "obj": the kind of state the user's reducer keeps
    stores,      \* stores[i]: state of the i-th store makeStore returned
    origin,      \* origin[i]: scope of the context makeStore was invoked with for store i
    reqStore,    \* reqStore[r]: req.__nextReduxWrapperStore of request r (0: unset)
    window,      \* window[key]: store registered under key (0: key not in window)
    acquired,    \* acquired[s]: the stores initStore has returned for scope s (history)
    inflight,    \* inflight[i]: a phase invocation suspended at "await callback(...)"
    result,      \* the latest phase results the host threads into the Wrapper's props
    warnings,    \* number of console.warn calls
    mount,       \* the Wrapper instance mounted in the browser: its refs and memoized hydrate
    rendered,    \* what the Wrapper render of the last step returned (NoRender: none):
                 \* the Provider's store, the state it shows, the Component's pageProps
    hydration,   \* the hydrate() call of the last step (ran = FALSE: none): the snapshots
                 \* its closure held and the actions it dispatched, in order
    errors       \* errors[s]: errors thrown by makeStore that initStore let through to its
                 \* caller, per scope of the context

vars == <<config, shape, stores, origin, reqStore, window, acquired, inflight, result,
          warnings, mount, rendered, hydration, errors>>

\* ------------------------------------------------------------- contexts
\* A Context as initStore reads it: req (0: none), ctx (hasCtx) with ctx.req,
\* and store / ctx.store (0: none), the fields the wrapper itself merges in.
EmptyContext == [req |-> 0, hasCtx |-> FALSE, ctxReq |-> 0, store |-> 0, ctxStore |-> 0]
PageContext(r) == [EmptyContext EXCEPT !.req = r]
AppContext(r) == [EmptyContext EXCEPT !.hasCtx = TRUE, !.ctxReq = r]

\* Scope tags: a request identity on the server, 0 for the browser session,
\* -1 for a server context that exposes no (single) request.
ClientScope == 0
NoScope == 0 - 1
Exposed(c) == ({c.req} \cup (IF c.hasCtx THEN {c.ctxReq} ELSE {})) \ {0}
ScopeOf(isServer, c) ==
    IF ~isServer THEN ClientScope
    ELSE IF Cardinality(Exposed(c)) = 1 THEN CHOOSE r \in Exposed(c) : TRUE
    ELSE NoScope

\* ------------------------------------------------------------- configuration
getDeserializedState(initialState, cfg) ==
    IF cfg.deserializeState THEN deserializeState(initialState) ELSE initialState

getSerializedState(state, cfg) ==
    IF cfg.serializeState THEN serializeState(state) ELSE state

\* getStoreKey that leaves the configured key aside in debug mode.
getStoreKey_DefaultWhenDebug(cfg) ==
    IF cfg.storeKey # "" /\ ~cfg.debug THEN cfg.storeKey ELSE STOREKEY

getStoreKey(cfg) == IF cfg.storeKey # "" THEN cfg.storeKey ELSE STOREKEY

\* ------------------------------------------------------------- the user's store
\* makeStore(context): the user's factory; the reducer starts at 0 / {count: 0}.
InitialState == [k |-> shape, n |-> 0]

\* The user's reducer: HYDRATE overwrites the state with the payload,
\* INCREMENT adds one to the counter.
Reducer(state, action) ==
    IF action.type = HYDRATE THEN action.payload
    ELSE IF action.type = "INCREMENT" THEN [state EXCEPT !.n = @ + 1]
    ELSE state

\* ------------------------------------------------------------- initStore
\* mem packs the memory initStore reads and writes.
Mem == [stores |-> stores, origin |-> origin, reqStore |-> reqStore, window |-> window]

createStore(mem, isServer, context) ==
    [mem EXCEPT !.stores = Append(@, InitialState),
                !.origin = Append(@, ScopeOf(isServer, context))]

\* initStore without line 47: context.ctx.req is never looked at.
initStore_IgnoresCtxReq(mem, isServer, context, cfg) ==
    LET storeKey == getStoreKey(cfg)
        made == createStore(mem, isServer, context)
        new == Len(made.stores)
    IN  IF isServer
        THEN LET req == IF context.req # 0 THEN context.req ELSE 0
             IN  IF req # 0
                 THEN IF mem.reqStore[req] = 0
                      THEN [mem |-> [made EXCEPT !.reqStore[req] = new], store |-> new]
                      ELSE [mem |-> mem, store |-> mem.reqStore[req]]
                 ELSE [mem |-> made, store |-> new]
        ELSE IF mem.window[storeKey] = 0
             THEN [mem |-> [made EXCEPT !.window[storeKey] = new], store |-> new]
             ELSE [mem |-> mem, store |-> mem.window[storeKey]]

\* initStore that memoizes in the browser under STOREKEY but looks up the
\* configured key.
initStore_WrongWindowKey(mem, isServer, context, cfg) ==
    LET storeKey == getStoreKey(cfg)
        made == createStore(mem, isServer, context)
        new == Len(made.stores)
    IN  IF isServer
        THEN LET r1 == IF context.req # 0 THEN context.req ELSE 0
                 req == IF context.hasCtx /\ context.ctxReq # 0 THEN context.ctxReq ELSE r1
             IN  IF req # 0
                 THEN IF mem.reqStore[req] = 0
                      THEN [mem |-> [made EXCEPT !.reqStore[req] = new], store |-> new]
                      ELSE [mem |-> mem, store |-> mem.reqStore[req]]
                 ELSE [mem |-> made, store |-> new]
        ELSE IF mem.window[storeKey] = 0
             THEN [mem |-> [made EXCEPT !.window[STOREKEY] = new], store |-> new]
             ELSE [mem |-> mem, store |-> mem.window[storeKey]]

\* initStore that keeps one store per server process for contexts without a
\* request instead of making a new one.
initStore_ServerSingleton(mem, isServer, context, cfg) ==
    LET storeKey == getStoreKey(cfg)
        made == createStore(mem, isServer, context)
        new == Len(made.stores)
    IN  IF isServer
        THEN LET r1 == IF context.req # 0 THEN context.req ELSE 0
                 req == IF context.hasCtx /\ context.ctxReq # 0 THEN context.ctxReq ELSE r1
                 server == {i \in 1..Len(mem.stores) : mem.origin[i] # ClientScope}
             IN  IF req # 0
                 THEN IF mem.reqStore[req] = 0
                      THEN [mem |-> [made EXCEPT !.reqStore[req] = new], store |-> new]
                      ELSE [mem |-> mem, store |-> mem.reqStore[req]]
                 ELSE IF server # {}
                      THEN [mem |-> mem, store |-> CHOOSE i \in server : \A j \in server : i <= j]
                      ELSE [mem |-> made, store |-> new]
        ELSE IF mem.window[storeKey] = 0
             THEN [mem |-> [made EXCEPT !.window[storeKey] = new], store |-> new]
             ELSE [mem |-> mem, store |-> mem.window[storeKey]]

\* initStore whose marker field lives on an object all requests share (the
\* prototype of the request objects): one slot for the whole server process.
initStore_SharedMarker(mem, isServer, context, cfg) ==
    LET storeKey == getStoreKey(cfg)
        made == createStore(mem, isServer, context)
        new == Len(made.stores)
        shared == CHOOSE r \in Requests : \A q \in Requests : r <= q
    IN  IF isServer
        THEN LET r1 == IF context.req # 0 THEN context.req ELSE 0
                 req == IF context.hasCtx /\ context.ctxReq # 0 THEN context.ctxReq ELSE r1
             IN  IF req # 0
                 THEN IF mem.reqStore[shared] = 0
                      THEN [mem |-> [made EXCEPT !.reqStore[shared] = new], store |-> new]
                      ELSE [mem |-> mem, store |-> mem.reqStore[shared]]
                 ELSE [mem |-> made, store |-> new]
        ELSE IF mem.window[storeKey] = 0
             THEN [mem |-> [made EXCEPT !.window[storeKey] = new], store |-> new]
             ELSE [mem |-> mem, store |-> mem.window[storeKey]]

\* initStore that falls through to the registry under storeKey when the
\* server context exposes no request.
initStore_RegistryWithoutRequest(mem, isServer, context, cfg) ==
    LET storeKey == getStoreKey(cfg)
        made == createStore(mem, isServer, context)
        new == Len(made.stores)
        r1 == IF context.req # 0 THEN context.req ELSE 0
        req == IF context.hasCtx /\ context.ctxReq # 0 THEN context.ctxReq ELSE r1
    IN  IF isServer /\ req # 0
        THEN IF mem.reqStore[req] = 0
             THEN [mem |-> [made EXCEPT !.reqStore[req] = new], store |-> new]
             ELSE [mem |-> mem, store |-> mem.reqStore[req]]
        ELSE IF mem.window[storeKey] = 0
             THEN [mem |-> [made EXCEPT !.window[storeKey] = new], store |-> new]
             ELSE [mem |-> mem, store |-> mem.window[storeKey]]

initStore(mem, isServer, context, cfg) ==
    LET storeKey == getStoreKey(cfg)
        made == createStore(mem, isServer, context)
        new == Len(made.stores)
    IN  IF isServer
        THEN LET r1 == IF context.req # 0 THEN context.req ELSE 0
                 req == IF context.hasCtx /\ context.ctxReq # 0 THEN context.ctxReq ELSE r1
             IN  IF req # 0
                 THEN IF mem.reqStore[req] = 0
                      THEN [mem |-> [made EXCEPT !.reqStore[req] = new], store |-> new]
                      ELSE [mem |-> mem, store |-> mem.reqStore[req]]
                 ELSE [mem |-> made, store |-> new]
        ELSE IF mem.window[storeKey] = 0
             THEN [mem |-> [made EXCEPT !.window[storeKey] = new], store |-> new]
             ELSE [mem |-> mem, store |-> mem.window[storeKey]]

\* initStore that registers the instance before makeStore has finished: the
\* throw leaves a partial instance memoized.
initStoreThrows_MemoizesPartial(mem, isServer, context, cfg) ==
    initStore(mem, isServer, context, cfg).mem

\* initStore when makeStore throws: the assignment of lines 51 / 58 is never
\* reached, the memory is as before and the error leaves initStore.
initStoreThrows(mem, isServer, context, cfg) == mem

\* Does initStore invoke makeStore for this context.
InvokesMakeStore(mem, isServer, context, cfg) ==
    Len(initStore(mem, isServer, context, cfg).mem.stores) > Len(mem.stores)

\* The effect of one initStore call on the variables, with the history of
\* what each scope was handed.
InitStoreCall(isServer, context, got) ==
    /\ got = initStore(Mem, isServer, context, config)
    /\ Len(got.mem.stores) <= MaxStores
    /\ origin' = got.mem.origin
    /\ reqStore' = got.mem.reqStore
    /\ window' = got.mem.window
    /\ acquired' = LET s == ScopeOf(isServer, context)
                   IN  IF s = NoScope THEN acquired
                       ELSE [acquired EXCEPT ![s] = @ \cup {got.store}]

\* ------------------------------------------------------------- phase adapters
\* A snapshot as the host carries it, with where it came from:
\* orig is the store state it was taken from, src is "phase" for a snapshot
\* makeProps took, "user" for a value the user callback put there itself.
NoSnap == [val |-> Undefined, orig |-> Undefined, src |-> "none"]

\* What a user callback returns: nothing, or an object with a key foo (0: no
\* such key); for getStaticProps and getServerSideProps the object's props may
\* itself hold a key initialState (ownInitialState), whose value is then
\* UserValue.  EmptyProps is the object {}.
UserValue == [k |-> shape, n |-> MaxCount]
NoReturn == [returned |-> FALSE, ownInitialState |-> FALSE, foo |-> 0]
UserReturns ==
    {NoReturn,
     [returned |-> TRUE, ownInitialState |-> FALSE, foo |-> 1],
     [returned |-> TRUE, ownInitialState |-> TRUE, foo |-> 1]}
EmptyProps == [returned |-> TRUE, ownInitialState |-> FALSE, foo |-> 0]

Kinds == {"app", "page", "gsp", "gssp"}
NoInv ==
    [kind |-> "none", isServer |-> FALSE, ctx |-> EmptyContext, given |-> EmptyContext,
     store |-> 0, cbStore |-> 0]
NoResult == [initialProps |-> NoReturn, initialState |-> NoSnap]

\* The contexts the host hands to a phase.
HostContexts(kind, isServer) ==
    IF kind = "app" THEN IF isServer THEN {AppContext(r) : r \in Requests} ELSE {AppContext(0)}
    ELSE IF kind = "page" THEN IF isServer THEN {PageContext(r) : r \in Requests} ELSE {PageContext(0)}
    ELSE IF kind = "gssp" THEN IF isServer THEN {PageContext(r) : r \in Requests} ELSE {}
    ELSE IF isServer THEN {EmptyContext} ELSE {}

\* The contexts a phase receives when it is called from inside the callback of a
\* suspended phase, which got the context with the store merged in
\* (App.getInitialProps calling the page's getInitialProps with its ctx; an
\* adapter wrapped in itself).
NestedContexts(kind, isServer) ==
    {[EmptyContext EXCEPT !.req = inflight[j].given.ctxReq, !.store = inflight[j].given.ctxStore] :
        j \in {i \in Slots : kind = "page" /\ inflight[i].kind = "app"
                              /\ inflight[i].isServer = isServer}}
    \cup
    {inflight[j].given :
        j \in {i \in Slots : kind \in {"gsp", "gssp"} /\ inflight[i].kind = kind
                              /\ inflight[i].isServer = isServer /\ inflight[i].store # 0}}

\* Line 82 assigning the store to the context it was given instead of to a
\* copy.
callbackContext_InPlace(context, store, isApp) ==
    LET merged == IF isApp THEN [context EXCEPT !.ctxStore = store]
                  ELSE [context EXCEPT !.store = store]
    IN  [host |-> merged, given |-> merged]

\* Line 82: the objects after the argument of the callback is built.  host is
\* the context the phase was given, as its owner sees it afterwards; given is
\* the new object the callback receives, with the store merged into a copy of
\* context.ctx when isApp and into a copy of context otherwise.
callbackContext(context, store, isApp) ==
    [host |-> context,
     given |-> IF isApp THEN [context EXCEPT !.ctxStore = store]
               ELSE [context EXCEPT !.store = store]]

\* makeProps up to its await: the store is acquired and the callback is called
\* with the store merged into the context (into context.ctx when isApp).
makePropsCall(slot, kind, isServer, context) ==
    \E got \in {initStore(Mem, isServer, context, config)} :
        /\ InitStoreCall(isServer, context, got)
        /\ stores' = got.mem.stores
        /\ inflight' = [inflight EXCEPT ![slot] =
                LET cc == callbackContext(context, got.store, kind = "app")
                IN  [kind |-> kind, isServer |-> isServer, ctx |-> cc.host, given |-> cc.given,
                     store |-> got.store,
                     cbStore |-> IF kind = "app" THEN cc.given.ctxStore ELSE cc.given.store]]
        /\ UNCHANGED warnings

\* makeProps after the await.
makePropsResult(inv, ret) ==
    LET state == stores[inv.store]
    IN  [initialProps |-> IF ret.returned THEN ret ELSE EmptyProps,
         initialState |-> [val |-> IF inv.isServer THEN getSerializedState(state, config) ELSE state,
                           orig |-> state, src |-> "phase"]]

\* getInitialPageProps without its guard: makeProps whatever the context holds.
getInitialPageProps_NoGuard(slot, isServer, context) ==
    makePropsCall(slot, "page", isServer, context)

\* getInitialPageProps: the guard on context.store, else makeProps.
getInitialPageProps(slot, isServer, context) ==
    IF context.store # 0
    THEN /\ warnings < MaxWarnings
         /\ warnings' = warnings + 1
         /\ inflight' = [inflight EXCEPT ![slot] =
                [kind |-> "page", isServer |-> isServer, ctx |-> context, given |-> context,
                 store |-> 0, cbStore |-> context.store]]
         /\ UNCHANGED <<stores, origin, reqStore, window, acquired>>
    ELSE makePropsCall(slot, "page", isServer, context)

getInitialAppProps(slot, isServer, context) == makePropsCall(slot, "app", isServer, context)

\* getStaticProps: makeProps, then initialProps.props spread over the wrapper's props.
getStaticProps(slot, kind, isServer, context) == makePropsCall(slot, kind, isServer, context)

getStaticPropsResult(inv, ret) ==
    LET wp == makePropsResult(inv, ret)
    IN  [wp EXCEPT !.initialState =
            IF wp.initialProps.ownInitialState
            THEN [val |-> UserValue, orig |-> stores[inv.store], src |-> "user"]
            ELSE @]

getServerSideProps(slot, isServer, context) == getStaticProps(slot, "gssp", isServer, context)

\* ------------------------------------------------------------- the Wrapper's props
\* A snapshot as a prop: val with the identity ref of the object holding it
\* (0 for a primitive, which Object.is compares by value).
NoPSnap == [val |-> Undefined, ref |-> 0, orig |-> Undefined, src |-> "none"]
Deliver(snap, ref) ==
    [val |-> snap.val, ref |-> IF snap.val.k = "obj" THEN ref ELSE 0,
     orig |-> snap.orig, src |-> snap.src]
Delivered(snaps, refs) ==
    {NoPSnap} \cup {Deliver(sn, ref) : sn \in {x \in snaps : x.src # "none"}, ref \in refs}

\* Object.is on two snapshot props: objects by identity, numbers and
\* undefined by value.
SameRef(a, b) == a.val = b.val /\ (a.val.k = "obj" => a.ref = b.ref)

\* pageProps: absent (has = FALSE) or an object with the optional keys
\* initialState (NoPSnap: no such key) and foo (0: no such key).
NoPageProps == [has |-> FALSE, initialState |-> NoPSnap, foo |-> 0]
\* initialProps: absent, or an object with an optional pageProps.
NoInitialProps == [has |-> FALSE, pageProps |-> NoPageProps]

\* {...a, ...b} on two pageProps objects (b may be undefined).
Spread(a, b) ==
    [has |-> TRUE,
     initialState |-> IF b.has /\ b.initialState # NoPSnap THEN b.initialState ELSE a.initialState,
     foo |-> IF b.has /\ b.foo # 0 THEN b.foo ELSE a.foo]

\* ------------------------------------------------------------- withRedux: the Wrapper
NoMount ==
    [mounted |-> FALSE, isFirstRender |-> TRUE, store |-> 0,
     initialState |-> NoPSnap, pageState |-> NoPSnap,
     pageProps |-> NoPageProps, initialProps |-> NoInitialProps,
     pending |-> FALSE, effect |-> FALSE,
     propsChanged |-> FALSE, snapChanged |-> FALSE, changed |-> FALSE,
     hydApp |-> 0, hydPage |-> 0]
NoGiven == [initialProps |-> NoInitialProps, pageProps |-> NoPageProps]
NoRender ==
    [isServer |-> FALSE, req |-> 0, first |-> FALSE, store |-> 0, state |-> Undefined,
     pageProps |-> NoPageProps, given |-> NoGiven, after |-> NoGiven]
NoHydration ==
    [ran |-> FALSE, store |-> 0, initialState |-> NoPSnap, pageState |-> NoPSnap, actions |-> <<>>]

\* hydrate() called on store with the snapshots its closure holds.
Hydration(store, initialState, pageState, actions) ==
    [ran |-> TRUE, store |-> store, initialState |-> initialState, pageState |-> pageState,
     actions |-> actions]

\* The actions hydrate() dispatches, in order, for the snapshots its closure holds.
hydrateActions(initialState, initialStateFromGSPorGSSR, cfg) ==
    (IF Truthy(initialState.val)
     THEN <<[type |-> HYDRATE, payload |-> getDeserializedState(initialState.val, cfg),
             source |-> "app", snap |-> initialState]>>
     ELSE <<>>)
    \o
    (IF Truthy(initialStateFromGSPorGSSR.val)
     THEN <<[type |-> HYDRATE, payload |-> getDeserializedState(initialStateFromGSPorGSSR.val, cfg),
             source |-> "page", snap |-> initialStateFromGSPorGSSR]>>
     ELSE <<>>)

RECURSIVE DispatchAll(_, _, _)
DispatchAll(sts, store, actions) ==
    IF actions = <<>> THEN sts
    ELSE DispatchAll([sts EXCEPT ![store] = Reducer(@, Head(actions))], store, Tail(actions))

InRangeAll(actions) == \A i \in 1..Len(actions) : InRange(actions[i].payload)
CountOf(actions, source) == Cardinality({i \in 1..Len(actions) : actions[i].source = source})

\* Do the two snapshot props differ, by reference, from the last render's.
SnapshotsDiffer(props, m) ==
    \/ ~SameRef(props.initialState, m.initialState)
    \/ ~SameRef(props.pageProps.initialState, m.pageState)

\* The merge of lines 183-186 with the two spreads in the other order.
resultPageProps_AppWins(props) ==
    LET initialStateFromGSPorGSSR ==
            IF props.pageProps.has THEN props.pageProps.initialState ELSE NoPSnap
        merged ==
            IF props.initialProps.has /\ props.initialProps.pageProps.has
            THEN Spread(props.pageProps, props.initialProps.pageProps)
            ELSE props.pageProps
    IN  IF Truthy(initialStateFromGSPorGSSR.val)
        THEN [merged EXCEPT !.initialState = NoPSnap]
        ELSE merged

\* Lines 180-194: the props handed to the wrapped Component.
resultPageProps(props) ==
    LET initialStateFromGSPorGSSR ==
            IF props.pageProps.has THEN props.pageProps.initialState ELSE NoPSnap
        merged ==
            IF props.initialProps.has /\ props.initialProps.pageProps.has
            THEN Spread(props.initialProps.pageProps, props.pageProps)
            ELSE props.pageProps
    IN  IF Truthy(initialStateFromGSPorGSSR.val)
        THEN [merged EXCEPT !.initialState = NoPSnap]
        ELSE merged

\* Lines 138-194 as they act on the objects the Wrapper received, which stay
\* with the host: initialProps and pageProps as they are when the render
\* returns.  props is the rest object of the destructuring, so line 183
\* assigns to a copy; held is the object props.pageProps then refers to (the
\* one received, or the new merged one), deleted the object line 193 deletes
\* initialState from (the clone of line 192).
propsAfterRender(props) ==
    LET held == IF props.initialProps.has /\ props.initialProps.pageProps.has
                THEN "merged" ELSE "received"
        initialStateFromGSPorGSSR ==
            IF props.pageProps.has THEN props.pageProps.initialState ELSE NoPSnap
        deleted == IF Truthy(initialStateFromGSPorGSSR.val) THEN "cloned" ELSE "none"
    IN  [initialProps |-> props.initialProps,
         pageProps |-> IF deleted = "received"
                       THEN [props.pageProps EXCEPT !.initialState = NoPSnap]
                       ELSE props.pageProps]

\* Does the host's new props object differ from the last one in any prop.
PropsDiffer(props, m) ==
    \/ ~SameRef(props.initialState, m.initialState)
    \/ props.pageProps.has # m.pageProps.has
    \/ ~SameRef(props.pageProps.initialState, m.pageState)
    \/ props.pageProps.foo # m.pageProps.foo
    \/ props.initialProps # m.initialProps

\* useCallback with the dependency initialState left out.
HydrateChanged_PageOnly(props, m) ==
    \/ ~m.mounted
    \/ ~SameRef(props.pageProps.initialState, m.pageState)

\* useCallback(..., [initialStateFromGSPorGSSR, initialState]): a new hydrate
\* exactly when one of the two differs from the last render's.
HydrateChanged(props, m) ==
    \/ ~m.mounted
    \/ ~SameRef(props.pageProps.initialState, m.pageState)
    \/ ~SameRef(props.initialState, m.initialState)

\* One render of the Wrapper on the server (renderToString): a new instance,
\* its body runs once and no effect ever runs.  The second argument of a
\* function component is React's legacy context object, which has no req.
ServerRender(r, props) ==
    \E got \in {initStore(Mem, TRUE, EmptyContext, config)} :
        LET store == got.store
            actions == hydrateActions(props.initialState, props.pageProps.initialState, config)
        IN  /\ ~mount.pending
            /\ InitStoreCall(TRUE, EmptyContext, got)
            /\ InRangeAll(actions)
            /\ stores' = DispatchAll(got.mem.stores, store, actions)
            /\ rendered' = [isServer |-> TRUE, req |-> r, first |-> TRUE, store |-> store,
                            state |-> stores'[store], pageProps |-> resultPageProps(props),
                            given |-> [initialProps |-> props.initialProps,
                                       pageProps |-> props.pageProps],
                            after |-> propsAfterRender(props)]
            /\ hydration' = Hydration(store, props.initialState, props.pageProps.initialState, actions)
            /\ UNCHANGED <<config, shape, errors, inflight, result, warnings, mount>>

\* One render of the Wrapper in the browser: lines 138-200 up to the return.
ClientRender(props) ==
    \E got \in {initStore(Mem, FALSE, EmptyContext, config)} :
        LET store == IF mount.mounted THEN mount.store ELSE got.store
            changed == HydrateChanged(props, mount)
            initialState == IF changed THEN props.initialState ELSE mount.initialState
            pageState == IF changed THEN props.pageProps.initialState ELSE mount.pageState
            actions == IF mount.isFirstRender
                       THEN hydrateActions(initialState, pageState, config)
                       ELSE <<>>
            nowChanged == mount.changed \/ (mount.mounted /\ SnapshotsDiffer(props, mount))
        IN  /\ ~mount.pending
            /\ InitStoreCall(FALSE, EmptyContext, got)
            /\ InRangeAll(hydrateActions(initialState, pageState, config))
            /\ stores' = DispatchAll(got.mem.stores, store, actions)
            /\ mount' = [mounted |-> TRUE, isFirstRender |-> mount.isFirstRender, store |-> store,
                         initialState |-> initialState, pageState |-> pageState,
                         pageProps |-> [props.pageProps EXCEPT !.initialState = NoPSnap],
                         initialProps |-> props.initialProps,
                         pending |-> TRUE, effect |-> changed,
                         propsChanged |-> mount.mounted /\ PropsDiffer(props, mount),
                         snapChanged |-> mount.mounted /\ SnapshotsDiffer(props, mount),
                         changed |-> nowChanged,
                         hydApp |-> IF nowChanged THEN 0 ELSE mount.hydApp + CountOf(actions, "app"),
                         hydPage |-> IF nowChanged THEN 0 ELSE mount.hydPage + CountOf(actions, "page")]
            /\ rendered' = [isServer |-> FALSE, req |-> 0, first |-> mount.isFirstRender,
                            store |-> store,
                            state |-> stores'[store], pageProps |-> resultPageProps(props),
                            given |-> [initialProps |-> props.initialProps,
                                       pageProps |-> props.pageProps],
                            after |-> propsAfterRender(props)]
            /\ hydration' = IF mount.isFirstRender
                            THEN Hydration(store, initialState, pageState, actions)
                            ELSE NoHydration
            /\ UNCHANGED <<config, shape, errors, inflight, result, warnings>>

\* The commit of that render: the layout effect (lines 172-178) runs when
\* hydrate is new, right after the render.
LayoutEffect ==
    LET run == mount.effect /\ ~mount.isFirstRender
        actions == IF run THEN hydrateActions(mount.initialState, mount.pageState, config) ELSE <<>>
    IN  /\ mount.pending
        /\ stores' = DispatchAll(stores, mount.store, actions)
        /\ mount' = [mount EXCEPT !.pending = FALSE, !.effect = FALSE,
                         !.propsChanged = FALSE, !.snapChanged = FALSE,
                         !.isFirstRender = IF mount.effect THEN FALSE ELSE @,
                         !.hydApp = IF mount.changed THEN 0 ELSE @ + CountOf(actions, "app"),
                         !.hydPage = IF mount.changed THEN 0 ELSE @ + CountOf(actions, "page")]
        /\ rendered' = NoRender
        /\ hydration' = IF run
                        THEN Hydration(mount.store, mount.initialState, mount.pageState, actions)
                        ELSE NoHydration
        /\ UNCHANGED <<config, shape, errors, origin, reqStore, window, acquired, inflight, result,
                       warnings>>

\* ------------------------------------------------------------- the phases as steps
\* The host (or a suspended callback) invokes a phase.
StartPhase(slot, kind, isServer, context) ==
    /\ ~mount.pending
    /\ inflight[slot] = NoInv
    /\ \A i \in Slots : i < slot => inflight[i] # NoInv
    /\ CASE kind = "app" -> getInitialAppProps(slot, isServer, context)
         [] kind = "page" -> getInitialPageProps(slot, isServer, context)
         [] kind = "gsp" -> getStaticProps(slot, "gsp", isServer, context)
         [] kind = "gssp" -> getServerSideProps(slot, isServer, context)
    /\ rendered' = NoRender
    /\ hydration' = NoHydration
    /\ UNCHANGED <<config, shape, errors, result, mount>>

\* The suspended user callback dispatches into the store of its context.
CallbackDispatch(slot) ==
    /\ ~mount.pending
    /\ inflight[slot] # NoInv
    /\ stores[inflight[slot].cbStore].n < MaxCount
    /\ stores[inflight[slot].cbStore].n >= 0
    /\ stores' = [stores EXCEPT ![inflight[slot].cbStore] = Reducer(@, [type |-> "INCREMENT"])]
    /\ rendered' = NoRender
    /\ hydration' = NoHydration
    /\ UNCHANGED <<config, shape, errors, origin, reqStore, window, acquired, inflight, result,
                   warnings, mount>>

\* The user callback returns and the phase completes; the host keeps the result.
FinishPhase(slot, ret) ==
    LET inv == inflight[slot]
    IN  /\ ~mount.pending
        /\ inv # NoInv
        /\ inflight' = [inflight EXCEPT ![slot] = NoInv]
        /\ result' =
             IF inv.store = 0 THEN result
             ELSE IF inv.kind \in {"app", "page"}
                  THEN [result EXCEPT !.app = makePropsResult(inv, ret)]
                  ELSE [result EXCEPT !.page = getStaticPropsResult(inv, ret)]
        /\ InRange(result'.app.initialState.val)
        /\ InRange(result'.page.initialState.val)
        /\ rendered' = NoRender
        /\ hydration' = NoHydration
        /\ UNCHANGED <<config, shape, errors, stores, origin, reqStore, window, acquired, warnings,
                       mount>>

\* A caller (a data-loading phase, or a Wrapper render when context is the
\* empty one) calls initStore and makeStore throws: lines 75 and 150 are
\* left by the error, and so are the phase and the render.
InitStoreThrows(isServer, context) ==
    LET s == ScopeOf(isServer, context)
        mem == initStoreThrows(Mem, isServer, context, config)
    IN  /\ ~mount.pending
        /\ InvokesMakeStore(Mem, isServer, context, config)
        /\ errors[s] < MaxErrors
        /\ errors' = [errors EXCEPT ![s] = @ + 1]
        /\ stores' = mem.stores
        /\ origin' = mem.origin
        /\ reqStore' = mem.reqStore
        /\ window' = mem.window
        /\ rendered' = NoRender
        /\ hydration' = NoHydration
        /\ UNCHANGED <<config, shape, acquired, inflight, result, warnings, mount>>

\* ------------------------------------------------------------- specification
Configs ==
    {[serializeState |-> FALSE, deserializeState |-> FALSE, storeKey |-> "", debug |-> FALSE],
     [serializeState |-> TRUE, deserializeState |-> TRUE, storeKey |-> CustomKey, debug |-> TRUE]}

Shapes == {"num", "obj"}

InitIn(env) ==
    /\ config \in env.configs
    /\ shape \in env.shapes
    /\ stores = <<>>
    /\ origin = <<>>
    /\ reqStore = [r \in Requests |-> 0]
    /\ window = [key \in Keys |-> 0]
    /\ acquired = [s \in Requests \cup {ClientScope} |-> {}]
    /\ inflight = [i \in Slots |-> NoInv]
    /\ result = [app |-> NoResult, page |-> NoResult]
    /\ warnings = 0
    /\ mount = NoMount
    /\ rendered = NoRender
    /\ hydration = NoHydration
    /\ errors = [s \in Requests \cup {ClientScope, NoScope} |-> 0]

\* The props the host can hand to the Wrapper under an environment env: the
\* snapshots are those the phases returned (result), each in an object of
\* some identity; foo and initialProps are user data.
WrapperProps(env) ==
    LET apps == IF env.snapshots
                THEN Delivered({result.app.initialState, result.page.initialState}, env.refs)
                ELSE {NoPSnap}
        pages == IF env.snapshots
                 THEN Delivered({result.page.initialState}, env.refs)
                 ELSE {NoPSnap}
    IN  {[initialState |-> a, initialProps |-> ip, pageProps |-> pp] :
            a \in apps, ip \in env.initialProps,
            pp \in {NoPageProps} \cup
                   {[has |-> TRUE, initialState |-> b, foo |-> f] : b \in pages, f \in env.foos}}

\* The data-loading phases, invoked by the host or from a suspended callback.
PhaseSteps(env) ==
    \/ \E slot \in env.slots, kind \in env.kinds, isServer \in BOOLEAN :
          \E context \in {c \in HostContexts(kind, isServer) : c.req \in env.requests \cup {0}
                                                             /\ c.ctxReq \in env.requests \cup {0}}
                         \cup NestedContexts(kind, isServer) :
              StartPhase(slot, kind, isServer, context)
    \/ \E slot \in env.slots : CallbackDispatch(slot)
    \/ \E slot \in env.slots, ret \in env.returns : FinishPhase(slot, ret)

\* The Wrapper rendered to a string on the server.
ServerSteps(env) ==
    \E r \in env.requests, props \in WrapperProps(env) : ServerRender(r, props)

\* The Wrapper mounted in the browser: renders, each followed by its commit.
ClientSteps(env) ==
    \/ \E props \in WrapperProps(env) : ClientRender(props)
    \/ LayoutEffect

\* makeStore throws in an initStore call of a phase or of a Wrapper render.
FailureSteps(env) ==
    \E isServer \in BOOLEAN :
        \E context \in {c \in UNION {HostContexts(kind, isServer) : kind \in env.kinds} :
                            c.req \in env.requests \cup {0} /\ c.ctxReq \in env.requests \cup {0}}
                       \cup {EmptyContext} :
            InitStoreThrows(isServer, context)

NextIn(env) == PhaseSteps(env) \/ ServerSteps(env) \/ ClientSteps(env) \/ FailureSteps(env)

\* Every input the model knows.
FullEnv ==
    [configs |-> Configs, shapes |-> Shapes, requests |-> Requests, slots |-> Slots, kinds |-> Kinds, returns |-> UserReturns,
     snapshots |-> TRUE, refs |-> Refs, foos |-> {0, 1, 2},
     initialProps |-> {NoInitialProps, [has |-> TRUE, pageProps |-> NoPageProps],
                       [has |-> TRUE, pageProps |-> [has |-> TRUE, initialState |-> NoPSnap, foo |-> 1]]}]

\* Store lifecycle: every phase on both sides, two requests, nested calls;
\* the Wrapper is rendered without snapshots.
LifecycleEnv ==
    [FullEnv EXCEPT !.shapes = {"obj"}, !.requests = {1}, !.slots = {1}, !.snapshots = FALSE, !.foos = {0}, !.initialProps = {NoInitialProps},
                    !.returns = {NoReturn}]

\* Hydration: one request, one phase at a time, the Wrapper rendered with the
\* snapshots the phases returned.
HydrationEnv ==
    [FullEnv EXCEPT !.requests = {1}, !.slots = {1}, !.foos = {0}, !.kinds = {"app", "gssp"},
                    !.initialProps = {NoInitialProps},
                    !.returns = {NoReturn}]

\* Props composition: the Wrapper rendered on the server with the snapshot of
\* getServerSideProps and with every form of initialProps and pageProps.
AppPageState == [val |-> Obj(0), ref |-> 1, orig |-> Undefined, src |-> "user"]
CompositionEnv ==
    [FullEnv EXCEPT !.configs = {c \in Configs : ~c.debug}, !.requests = {1}, !.slots = {1},
                    !.kinds = {"gssp"}, !.returns = {NoReturn}, !.refs = {1}, !.foos = {0, 2},
                    !.initialProps = @ \cup
                        {[has |-> TRUE,
                          pageProps |-> [has |-> TRUE, initialState |-> AppPageState, foo |-> 0]]}]

\* Failing factory: the phases of one request and of the browser session and
\* the Wrapper in the browser, with makeStore throwing at any initStore call.
FailureEnv ==
    [FullEnv EXCEPT !.shapes = {"obj"}, !.requests = {1}, !.slots = {1}, !.kinds = {"app", "gssp"},
                    !.snapshots = FALSE, !.foos = {0}, !.initialProps = {NoInitialProps},
                    !.returns = {NoReturn}]

\* Two requests served at once: their phases interleave at the awaits.
IsolationEnv ==
    [FullEnv EXCEPT !.configs = {c \in Configs : c.debug}, !.shapes = {"obj"},
                    !.kinds = {"app", "gssp"}, !.returns = {NoReturn}]

\* Both configurations side by side: the phases and the Wrapper in the
\* browser, with object states and one identity per snapshot.
DebugEnv ==
    [HydrationEnv EXCEPT !.shapes = {"obj"}, !.refs = {1}]

\* The phases alone, nested calls included.
NestedEnv ==
    [FullEnv EXCEPT !.requests = {1}, !.shapes = {"obj"}, !.returns = {NoReturn}]

\* The phases one at a time, with every kind of user return.
PhasesEnv ==
    [FullEnv EXCEPT !.requests = {1}, !.slots = {1}]

Init == InitIn(FullEnv)
Next == NextIn(FullEnv)
Spec == Init /\ [][Next]_vars

InitLifecycle == InitIn(LifecycleEnv)
NextLifecycle == PhaseSteps(LifecycleEnv) \/ ServerSteps(LifecycleEnv) \/ ClientSteps(LifecycleEnv)
SpecLifecycle == InitLifecycle /\ [][NextLifecycle]_vars

InitHydration == InitIn(HydrationEnv)
NextHydration == PhaseSteps(HydrationEnv) \/ ServerSteps(HydrationEnv) \/ ClientSteps(HydrationEnv)
SpecHydration == InitHydration /\ [][NextHydration]_vars

InitNavigation == InitIn(HydrationEnv)
NextNavigation == PhaseSteps(HydrationEnv) \/ ClientSteps(HydrationEnv)
SpecNavigation == InitNavigation /\ [][NextNavigation]_vars

InitComposition == InitIn(CompositionEnv)
NextComposition == PhaseSteps(CompositionEnv) \/ ServerSteps(CompositionEnv)
SpecComposition == InitComposition /\ [][NextComposition]_vars

InitFailure == InitIn(FailureEnv)
NextFailure == PhaseSteps(FailureEnv) \/ ClientSteps(FailureEnv) \/ FailureSteps(FailureEnv)
SpecFailure == InitFailure /\ [][NextFailure]_vars

InitIsolation == InitIn(IsolationEnv)
NextIsolation == PhaseSteps(IsolationEnv)
SpecIsolation == InitIsolation /\ [][NextIsolation]_vars

InitDebug == InitIn(DebugEnv)
NextDebug == PhaseSteps(DebugEnv) \/ ClientSteps(DebugEnv)
SpecDebug == InitDebug /\ [][NextDebug]_vars

InitPhases == InitIn(PhasesEnv)
NextPhases == PhaseSteps(PhasesEnv)
SpecPhases == InitPhases /\ [][NextPhases]_vars

InitNested == InitIn(NestedEnv)
NextNested == PhaseSteps(NestedEnv)
SpecNested == InitNested /\ [][NextNested]_vars

\* ------------------------------------------------------------- properties
StoresOf(scope) == {i \in 1..Len(stores) : origin[i] = scope}
Present(snap) == snap.val # Undefined
Sources(actions) == [i \in 1..Len(actions) |-> actions[i].source]
TheKey == getStoreKey(config)

\* C1: on the server, all initStore calls whose contexts expose the same
\* request (as context.req or as context.ctx.req) return the same store, and
\* makeStore is invoked exactly once for that request.
C1_SameStorePerRequest ==
    \A r \in Requests :
        /\ Cardinality(acquired[r]) <= 1
        /\ acquired[r] # {} => /\ Cardinality(StoresOf(r)) = 1
                               /\ acquired[r] = StoresOf(r)
                               /\ acquired[r] = {reqStore[r]}

\* C1 witness: the application-level phase of request 1 (context.ctx.req) has
\* completed and the request-time phase of the same request (context.req) is
\* running with the only store there is.
C1_Witness ==
    /\ Len(stores) = 1
    /\ origin[1] = 1
    /\ result.app.initialState.src = "phase"
    /\ \E i \in Slots : inflight[i].kind = "gssp" /\ inflight[i].ctx.req = 1 /\ inflight[i].store = 1

\* C2: in the browser, all initStore calls (Wrapper renders and re-renders,
\* client-side getInitialProps) return the same store for the whole session,
\* and makeStore is invoked only by the first of them.
C2_SameStorePerSession ==
    /\ Cardinality(acquired[ClientScope]) <= 1
    /\ acquired[ClientScope] # {} => /\ Cardinality(StoresOf(ClientScope)) = 1
                                     /\ acquired[ClientScope] = StoresOf(ClientScope)
                                     /\ acquired[ClientScope] = {window[TheKey]}
    /\ mount.mounted => mount.store = window[TheKey]
    /\ \A i \in Slots : (inflight[i].kind # "none" /\ ~inflight[i].isServer /\ inflight[i].store # 0)
                            => inflight[i].store = window[TheKey]

\* C2 witness: the Wrapper has rendered and committed in the browser and a
\* client-side getInitialProps is running with the Wrapper's store.
C2_Witness ==
    /\ mount.mounted /\ ~mount.pending /\ ~mount.isFirstRender
    /\ \E i \in Slots : inflight[i].kind = "app" /\ ~inflight[i].isServer
                        /\ inflight[i].store = mount.store

\* C4 as claimed: at most one store per scope, the Wrapper's own initStore call
\* at render time included, so on the server the store the Wrapper provides
\* is the one the request's data-loading phases dispatched into.
C4_OneStorePerScope ==
    /\ \A scope \in Requests \cup {ClientScope} : Cardinality(StoresOf(scope)) <= 1
    /\ (rendered # NoRender /\ rendered.isServer /\ reqStore[rendered.req] # 0)
           => rendered.store = reqStore[rendered.req]
    /\ (rendered # NoRender /\ ~rendered.isServer) => rendered.store = window[TheKey]

\* C4 amended: makeStore is invoked at most once for the data-loading phases of
\* one server request and at most once for all operations of one client
\* session; in the browser the Wrapper provides the session's store, the one
\* the client-side phases dispatch into; on the server the Wrapper's initStore
\* call gets a context without the request and makes a new store, distinct from
\* the request's.
C4_OneStorePerScopeButServerRender ==
    /\ \A scope \in Requests \cup {ClientScope} : Cardinality(StoresOf(scope)) <= 1
    /\ (rendered # NoRender /\ ~rendered.isServer) =>
           /\ rendered.store = window[TheKey]
           /\ StoresOf(ClientScope) = {rendered.store}
    /\ (rendered # NoRender /\ rendered.isServer) =>
           /\ rendered.store = Len(stores)
           /\ origin[rendered.store] = NoScope
           /\ \A r \in Requests : reqStore[r] # rendered.store
           /\ \A i \in Slots : inflight[i].cbStore # rendered.store

\* C4 witness: the Wrapper is rendered on the server for a request whose
\* data-loading phase made a store.
C4_Witness ==
    /\ rendered # NoRender /\ rendered.isServer
    /\ reqStore[rendered.req] # 0
    /\ result.page.initialState.src = "phase"

\* C3: when an application-level and a page-level snapshot are both present
\* in one hydration pass, HYDRATE for the application-level one is dispatched
\* first and HYDRATE for the page-level one second, so that with the
\* overwriting reducer the store ends in the page-level snapshot.
C3_AppBeforePage ==
    (hydration.ran /\ Present(hydration.initialState) /\ Present(hydration.pageState)) =>
        /\ Sources(hydration.actions) = <<"app", "page">>
        /\ stores[hydration.store] = getDeserializedState(hydration.pageState.val, config)

\* C5: within one mount, as long as the snapshots have not changed, each
\* present snapshot has been dispatched exactly once and an absent one never.
C5_OncePerMount ==
    (mount.mounted /\ ~mount.changed) =>
        /\ mount.hydApp = IF Present(mount.initialState) THEN 1 ELSE 0
        /\ mount.hydPage = IF Present(mount.pageState) THEN 1 ELSE 0

\* C6: on the first render, on the server and in the browser, every present
\* snapshot has been dispatched as HYDRATE before the Provider and the
\* Component are rendered: what they read is the hydrated state.
C6_HydratedBeforeFirstRead ==
    (rendered # NoRender /\ rendered.first) =>
        /\ hydration.ran
        /\ Present(hydration.initialState) => CountOf(hydration.actions, "app") = 1
        /\ Present(hydration.pageState) => CountOf(hydration.actions, "page") = 1
        /\ Present(hydration.pageState) =>
               rendered.state = getDeserializedState(hydration.pageState.val, config)
        /\ (Present(hydration.initialState) /\ ~Present(hydration.pageState)) =>
               rendered.state = getDeserializedState(hydration.initialState.val, config)

\* C7 as claimed: after the first render, every change of the props handed to
\* the Wrapper makes the hydration routine run again.
C7_RehydrateOnPropsChange ==
    [][(mount.pending /\ ~mount'.pending /\ ~mount.isFirstRender /\ mount.propsChanged)
           => hydration'.ran]_vars

\* C7 amended: after the first render, the hydration routine runs again, in
\* the layout effect, exactly when the initialState or pageProps.initialState
\* prop differs by reference from the last render's; it dispatches its truthy
\* snapshots, application-level first, into the same store, and no store is
\* made or replaced.
C7_RehydrateOnSnapshotChange ==
    [][(mount.pending /\ ~mount'.pending /\ ~mount.isFirstRender) =>
           /\ hydration'.ran = mount.snapChanged
           /\ hydration'.ran =>
                  /\ hydration'.store = mount.store
                  /\ mount'.store = mount.store
                  /\ window'[TheKey] = mount.store
                  /\ Len(stores') = Len(stores)
                  /\ Sources(hydration'.actions) =
                         (IF Truthy(mount.initialState.val) THEN <<"app">> ELSE <<>>)
                         \o (IF Truthy(mount.pageState.val) THEN <<"page">> ELSE <<>>)]_vars

\* C7 witness: a layout effect after a changed render has dispatched both
\* snapshots into the mounted Wrapper's store.
C7_Witness ==
    /\ mount.mounted /\ ~mount.pending /\ mount.changed
    /\ hydration.ran /\ hydration.store = mount.store
    /\ Sources(hydration.actions) = <<"app", "page">>

\* C8: with a serializeState/deserializeState pair that are inverses of each
\* other (or none configured), the payload of every HYDRATE dispatched for a
\* snapshot a data-loading phase took equals the state it was taken from.
C8_RoundTrip ==
    (config.serializeState = config.deserializeState) =>
        \A i \in 1..Len(hydration.actions) :
            hydration.actions[i].snap.src = "phase" =>
                hydration.actions[i].payload = hydration.actions[i].snap.orig

\* C9: the result of getStaticProps / getServerSideProps carries
\* props.initialState equal to serializeState of the store's state after the
\* callback completed, whatever the callback returned.
C9_SnapshotInProps ==
    result.page.initialState.src # "none" =>
        result.page.initialState.val =
            (IF config.serializeState THEN serializeState(result.page.initialState.orig)
             ELSE result.page.initialState.orig)

\* C10 as claimed: whenever any data-loading phase is invoked with a context
\* that already carries a store, no store is made, the callback is called
\* with that same store and a warning is emitted.
C10_GuardInEveryPhase ==
    [][\A i \in Slots :
          (inflight[i] = NoInv /\ inflight'[i] # NoInv /\ inflight'[i].ctx.store # 0) =>
              /\ Len(stores') = Len(stores)
              /\ inflight'[i].cbStore = inflight'[i].ctx.store
              /\ warnings' = warnings + 1]_vars

\* C10 amended: whenever the page-level getInitialProps phase is invoked with
\* a context that already carries a store, initStore is not called, no store
\* is made, the callback is called with that same store and a warning is
\* emitted.
C10_GuardInPageGetInitialProps ==
    [][\A i \in Slots :
          (inflight[i] = NoInv /\ inflight'[i] # NoInv /\ inflight'[i].kind = "page"
              /\ inflight'[i].ctx.store # 0) =>
              /\ Len(stores') = Len(stores)
              /\ acquired' = acquired
              /\ inflight'[i].store = 0
              /\ inflight'[i].cbStore = inflight'[i].ctx.store
              /\ warnings' = warnings + 1]_vars

\* C10 witness: the page's getInitialProps runs inside the application-level
\* callback, with the store that callback was given.
C10_Witness ==
    \E i, j \in Slots :
        /\ inflight[i].kind = "app"
        /\ inflight[j].kind = "page"
        /\ inflight[j].ctx.store = inflight[i].cbStore
        /\ inflight[j].cbStore = inflight[i].cbStore
        /\ warnings = 1

\* C11 as claimed: when initialProps.pageProps exists, the pageProps handed to
\* the wrapped Component is the merge of initialProps.pageProps and the
\* page-level pageProps: a key of both has the page-level value, a key of only
\* one of them is kept.
C11_PagePropsMerge ==
    (rendered # NoRender /\ rendered.given.initialProps.has
        /\ rendered.given.initialProps.pageProps.has) =>
        LET app == rendered.given.initialProps.pageProps
            page == rendered.given.pageProps
        IN  /\ rendered.pageProps.has
            /\ rendered.pageProps.foo = IF page.has /\ page.foo # 0 THEN page.foo ELSE app.foo
            /\ rendered.pageProps.initialState =
                   IF page.has /\ page.initialState # NoPSnap THEN page.initialState
                   ELSE app.initialState

\* C11 amended: the same merge, except that the key initialState is left out
\* of the handed pageProps when the page-level pageProps.initialState is
\* truthy.
C11_PagePropsMergeButSnapshot ==
    (rendered # NoRender /\ rendered.given.initialProps.has
        /\ rendered.given.initialProps.pageProps.has) =>
        LET app == rendered.given.initialProps.pageProps
            page == rendered.given.pageProps
        IN  /\ rendered.pageProps.has
            /\ rendered.pageProps.foo = IF page.has /\ page.foo # 0 THEN page.foo ELSE app.foo
            /\ rendered.pageProps.initialState =
                   IF page.has /\ Truthy(page.initialState.val) THEN NoPSnap
                   ELSE IF page.has /\ page.initialState # NoPSnap THEN page.initialState
                   ELSE app.initialState

\* C11 witness: both objects hold foo and the page-level one holds a truthy
\* snapshot: the Component gets the page-level foo and no initialState.
C11_Witness ==
    /\ rendered # NoRender
    /\ rendered.given.initialProps.has
    /\ rendered.given.initialProps.pageProps.foo = 1
    /\ rendered.given.pageProps.foo = 2
    /\ Truthy(rendered.given.pageProps.initialState.val)
    /\ rendered.pageProps.foo = 2

\* C12: whenever a page-level snapshot is present, the props handed to the
\* wrapped Component hold no pageProps.initialState, and the objects the
\* Wrapper received are unchanged by the composition: the incoming pageProps
\* still holds its initialState, initialProps and its pageProps are as before.
C12_NoLeakNoMutation ==
    rendered # NoRender =>
        /\ (rendered.given.pageProps.has /\ Present(rendered.given.pageProps.initialState))
               => rendered.pageProps.initialState = NoPSnap
        /\ rendered.after = rendered.given

\* The memoization slot of a scope: the request's marker field, or the
\* window key of the session.
Memo(scope) == IF scope = ClientScope THEN window[TheKey] ELSE reqStore[scope]

\* C13: when makeStore throws during initStore, the error reaches the caller
\* and nothing is memoized or made: the request's marker field and the window
\* key stay unset; the next initStore call for that scope invokes makeStore
\* again, and the store of the call that succeeds is the one memoized.
C13_ThrowMemoizesNothing ==
    [][/\ (errors' # errors) =>
              /\ stores' = stores /\ origin' = origin
              /\ reqStore' = reqStore /\ window' = window
              /\ acquired' = acquired /\ inflight' = inflight /\ result' = result
              /\ mount' = mount
       /\ \A s \in Requests \cup {ClientScope} :
              /\ errors'[s] > errors[s] => Memo(s)' = 0
              /\ (errors[s] > 0 /\ acquired'[s] # acquired[s]) =>
                     /\ Memo(s) = 0
                     /\ Len(stores') = Len(stores) + 1
                     /\ origin'[Len(stores')] = s
                     /\ Memo(s)' = Len(stores')
                     /\ acquired'[s] = {Len(stores')}]_vars

\* C13 witness: makeStore threw once for the request and once for the browser
\* session, and a later call of each scope succeeded and is memoized.
C13_Witness ==
    /\ errors[1] = 1 /\ reqStore[1] # 0
    /\ errors[ClientScope] = 1 /\ window[TheKey] # 0
    /\ reqStore[1] # window[TheKey]

\* C14: in a hydration pass, a HYDRATE action is dispatched for a snapshot
\* source if and only if that snapshot is present (not undefined): none for an
\* absent one, and for every present one, whatever its value, one whose
\* payload is the deserialized snapshot.
C14_DispatchIffPresent ==
    hydration.ran =>
        /\ CountOf(hydration.actions, "app") = IF Present(hydration.initialState) THEN 1 ELSE 0
        /\ CountOf(hydration.actions, "page") = IF Present(hydration.pageState) THEN 1 ELSE 0
        /\ \A i \in 1..Len(hydration.actions) :
               /\ hydration.actions[i].type = HYDRATE
               /\ hydration.actions[i].payload =
                      getDeserializedState(hydration.actions[i].snap.val, config)

\* The request whose phase is suspended in a slot (NoScope: none, or a phase
\* run in the browser).
RequestOf(slot) ==
    IF inflight[slot] # NoInv /\ inflight[slot].isServer
    THEN ScopeOf(TRUE, inflight[slot].ctx) ELSE NoScope

\* C15: however the phases of two distinct server requests interleave, also
\* while their callbacks are suspended, the two requests never get the same
\* store, the store of a request changes only by a dispatch of a callback of
\* that request, and the snapshot a phase returns is the state of its own
\* request's store.
C15_RequestsIsolated ==
    [][/\ \A r, q \in Requests : r # q => acquired'[r] \cap acquired'[q] = {}
       /\ \A i, j \in Slots :
              (RequestOf(i) \in Requests /\ RequestOf(j) \in Requests /\ RequestOf(i) # RequestOf(j))
                  => inflight[i].cbStore # inflight[j].cbStore
       /\ \A r \in Requests :
              (reqStore[r] # 0 /\ stores'[reqStore[r]] # stores[reqStore[r]]) =>
                  \E i \in Slots : RequestOf(i) = r /\ CallbackDispatch(i)
       /\ \A i \in Slots :
              (RequestOf(i) \in Requests /\ inflight'[i] = NoInv) =>
                  LET snap == IF inflight[i].kind = "app" THEN result'.app.initialState
                              ELSE result'.page.initialState
                  IN  /\ snap.orig = stores[reqStore[RequestOf(i)]]
                      /\ snap.val = getSerializedState(snap.orig, config)]_vars

\* C15 witness: a phase of each of the two requests is suspended, the
\* callback of the first has dispatched and the store of the second is as
\* it was made.
C15_Witness ==
    /\ RequestOf(1) = 1 /\ RequestOf(2) = 2
    /\ reqStore[1] # 0 /\ reqStore[2] # 0 /\ reqStore[1] # reqStore[2]
    /\ stores[reqStore[1]].n = MaxCount
    /\ stores[reqStore[2]].n = 0

\* Every context a caller of initStore can hold, and every snapshot a
\* hydrate closure can hold, in the current state.
AllContexts ==
    UNION {HostContexts(kind, isServer) : kind \in Kinds, isServer \in BOOLEAN}
    \cup {EmptyContext} \cup {inflight[i].given : i \in Slots}
AllSnapshots ==
    {NoPSnap, mount.initialState, mount.pageState}
    \cup Delivered({result.app.initialState, result.page.initialState}, Refs)

C17_FreshStoreWithoutRequest ==
    [][\A store \in 1..MaxStores + 1 :
          (\/ rendered' # NoRender /\ rendered'.isServer /\ rendered'.store = store
           \/ \E i \in Slots : /\ inflight[i] = NoInv /\ inflight'[i] # NoInv
                               /\ inflight'[i].isServer /\ Exposed(inflight'[i].ctx) = {}
                               /\ inflight'[i].store = store) =>
              /\ Len(stores') = Len(stores) + 1
              /\ store = Len(stores')
              /\ origin'[store] = NoScope
              /\ reqStore' = reqStore /\ window' = window /\ acquired' = acquired]_vars

\* C17 witness: two request-less calls on the server, a Wrapper render or a
\* getStaticProps and then a getStaticProps, have each made a store.
C17_Witness ==
    /\ Len(stores) = 2 /\ origin[1] = NoScope /\ origin[2] = NoScope
    /\ \E i \in Slots : inflight[i].kind = "gsp" /\ inflight[i].store = 2
    /\ \A r \in Requests : reqStore[r] = 0
    /\ \A key \in Keys : window[key] = 0

C19_RehydrateOnlyOnNewSnapshot ==
    [][/\ (mount.pending /\ ~mount'.pending /\ mount.isFirstRender) =>
              /\ ~hydration'.ran
              /\ stores' = stores
       /\ (mount.pending /\ ~mount'.pending /\ ~mount.isFirstRender) =>
              /\ hydration'.ran = mount.snapChanged
              /\ hydration'.ran =>
                     /\ hydration'.store = mount.store
                     /\ Sources(hydration'.actions) =
                            (IF Present(mount.initialState) THEN <<"app">> ELSE <<>>)
                            \o (IF Present(mount.pageState) THEN <<"page">> ELSE <<>>)
       /\ (~mount.pending /\ ~mount.isFirstRender) => ~hydration'.ran]_vars
====
